---- MODULE Spec2Model ----
(***************************************************************************)
(* Model of ps_data_worker.py: the network normaliser                      *)
(* create_ps_data_from_rts_data, the cost curve builder                    *)
(* create_pwlcost_from_rts_data and RTSDataSet.read_rts_timeseries.        *)
(*                                                                         *)
(* Python values are modelled as follows.  A dict is a function whose      *)
(* DOMAIN is its key set, a list is a sequence (position p of the code is  *)
(* index p+1 of the sequence; the model stores the code's 0-based          *)
(* positions as values).  None is the empty sequence and a present value v *)
(* is <<v>>.  Numbers are exact rationals <<n, d>> with d > 0 in lowest    *)
(* terms, so the model abstracts from floating-point rounding.  Columns    *)
(* that the code copies verbatim and never reads again (lat, lng, fuel,    *)
(* unit_type, r, x, b, ...) are left out of the records.                   *)
(***************************************************************************)
EXTENDS Integers, Sequences, FiniteSets, TLC

VARIABLES rtsdata,          \* the RTSDataSet handed to the function
          pc, i, err, ret,  \* control point, loop index, raised error, returned value
          area_load, busdata, busindexmap, gendata, genindexmap,
          branchdata, branchindexmap, slackbus,
          g, x1, x2, x3, y1, y2, y3, xs, ys, gencost,   \* create_pwlcost_from_rts_data
          df, diag                                      \* read_rts_timeseries, its printed lines

psvars == <<area_load, busdata, busindexmap, gendata, genindexmap,
            branchdata, branchindexmap, slackbus>>
costvars == <<g, x1, x2, x3, y1, y2, y3, xs, ys, gencost>>
tsvars == <<df, diag>>

vars == <<rtsdata, pc, i, err, ret, psvars, costvars, tsvars>>

----------------------------------------------------------------------------
(* Python values *)

None == <<>>
Some(v) == <<v>>

EmptyDict == <<>>

\* a first-wins variant of the assignment (dict.setdefault)
DictPutKeepFirst(d, k, v) == [x \in (DOMAIN d) \cup {k} |-> IF x \in DOMAIN d THEN d[x] ELSE v]

\* d[k] = v for a Python dict
DictPut(d, k, v) == [x \in (DOMAIN d) \cup {k} |-> IF x = k THEN v ELSE d[x]]

\* a lookup that falls back on position 0 (dict.get(k, 0))
LookupDefault(d, k) == IF k \in DOMAIN d THEN Some(d[k]) ELSE Some(0)

\* d[k] as an rvalue: None stands for the KeyError
Lookup(d, k) == IF k \in DOMAIN d THEN Some(d[k]) ELSE None

(* Exact rationals *)

Abs(n) == IF n < 0 THEN -n ELSE n

RECURSIVE Gcd(_, _)
Gcd(a, b) == IF b = 0 THEN a ELSE Gcd(b, a % b)

\* n/d in lowest terms with a positive denominator (d # 0)
Rat(n, d) ==
    LET c == Gcd(Abs(n), Abs(d))
        s == IF d < 0 THEN -1 ELSE 1
    IN  <<(s * n) \div c, (s * d) \div c>>

RInt(n) == <<n, 1>>
RAdd(a, b) == Rat(a[1] * b[2] + b[1] * a[2], a[2] * b[2])
RSub(a, b) == Rat(a[1] * b[2] - b[1] * a[2], a[2] * b[2])
RMul(a, b) == Rat(a[1] * b[1], a[2] * b[2])
RDiv(a, b) == Rat(a[1] * b[2], a[2] * b[1])
RLe(a, b) == a[1] * b[2] <= b[1] * a[2]
RIsZero(a) == a[1] = 0

----------------------------------------------------------------------------
(* Bounds and input domains *)

\* longest table that is varied over its whole row domain
MaxRows == 2

SeqsUpTo(S, n) == UNION {[1..k -> S] : k \in 0..n}

BusRows == [bus_id : {1, 2}, bus_type : {"Ref", "PQ"}, area : {1, 2}, mw_load : {0, 1, 2}]
GenRows == [gen_uid : {"G1", "G2"}, bus_id : {1, 2, 3},
            pmax_mw : {50}, pmin_mw : {10}, ramp_rate_mw_per_min : {3}]
BranchRows == [uid : {"L1", "L2"}, from_bus : {1, 2, 3}, to_bus : {1, 2, 3},
               cont_rating : {150}, ste_rating : {200}]

FixedBus(id, type) == [bus_id |-> id, bus_type |-> type, area |-> 1, mw_load |-> 1]
FixedGen == [gen_uid |-> "G1", bus_id |-> 1, pmax_mw |-> 50, pmin_mw |-> 10,
             ramp_rate_mw_per_min |-> 3]
FixedBranch == [uid |-> "L1", from_bus |-> 1, to_bus |-> 2, cont_rating |-> 150,
                ste_rating |-> 200]

\* bus tables used while the generator or the branch table is varied:
\* one bus, two buses, and two buses that share one bus_id
FixedBusTables == {<<FixedBus(1, "Ref")>>,
                   <<FixedBus(1, "Ref"), FixedBus(2, "PQ")>>,
                   <<FixedBus(1, "PQ"), FixedBus(1, "Ref")>>}

\* The inputs: one table at a time ranges over every sequence of rows of
\* length <= MaxRows, the other two over a fixed selection.
BusInputs == [bus : SeqsUpTo(BusRows, MaxRows), gen : {<<>>, <<FixedGen>>},
              branch : {<<>>, <<FixedBranch>>}, basemva : {100}]
GenInputs == [bus : FixedBusTables, gen : SeqsUpTo(GenRows, MaxRows),
              branch : {<<>>, <<FixedBranch>>}, basemva : {0, 100}]
BranchInputs == [bus : FixedBusTables, gen : {<<FixedGen>>},
                 branch : SeqsUpTo(BranchRows, MaxRows), basemva : {0, 100}]
Inputs == BusInputs \cup GenInputs \cup BranchInputs

----------------------------------------------------------------------------
(* create_ps_data_from_rts_data *)

\* the accumulation with = in place of +=
AreaLoadAddOverwrite(al, bus) == DictPut(al, bus.area, bus.mw_load)

AreaLoadAdd(al, bus) ==
    IF bus.area \in DOMAIN al
    THEN [al EXCEPT ![bus.area] = @ + bus.mw_load]
    ELSE DictPut(al, bus.area, bus.mw_load)

IsSlack(bus) == bus.bus_type = "Ref"

\* the slack position recorded 1-based
SlackUpdateOneBased(sb, bus, pos) == IF IsSlack(bus) THEN Some(pos + 1) ELSE sb

SlackUpdate(sb, bus, pos) == IF IsSlack(bus) THEN Some(pos) ELSE sb

NewBus(bus, al) ==
    [id |-> bus.bus_id, type |-> bus.bus_type, area |-> bus.area,
     area_load_share |-> Rat(bus.mw_load, al[bus.area]),
     is_slack |-> IsSlack(bus),
     gens |-> <<>>, branches_out |-> <<>>, branches_in |-> <<>>]

\* the generator keeps the external bus_id instead of the position
NewGenRawBus(gen, buspos, basemva) ==
    [id |-> gen.gen_uid, bus |-> gen.bus_id,
     pmax_mw |-> gen.pmax_mw, pmax_pu |-> Rat(gen.pmax_mw, basemva),
     pmin_mw |-> gen.pmin_mw, pmin_pu |-> Rat(gen.pmin_mw, basemva),
     ramp_rate_mw_min |-> gen.ramp_rate_mw_per_min,
     ramp_rate_pu_min |-> Rat(gen.ramp_rate_mw_per_min, basemva)]

NewGen(gen, buspos, basemva) ==
    [id |-> gen.gen_uid, bus |-> buspos,
     pmax_mw |-> gen.pmax_mw, pmax_pu |-> Rat(gen.pmax_mw, basemva),
     pmin_mw |-> gen.pmin_mw, pmin_pu |-> Rat(gen.pmin_mw, basemva),
     ramp_rate_mw_min |-> gen.ramp_rate_mw_per_min,
     ramp_rate_pu_min |-> Rat(gen.ramp_rate_mw_per_min, basemva)]

NewBranch(branch, frompos, topos, basemva) ==
    [id |-> branch.uid, from_bus |-> frompos, to_bus |-> topos,
     cap_mw |-> branch.cont_rating, cap_pu |-> Rat(branch.cont_rating, basemva),
     emergency_cap_mw |-> branch.ste_rating,
     emergency_cap_pu |-> Rat(branch.ste_rating, basemva)]

\* busdata[pos]['gens'].append(k) and its two siblings
AppendGens(bd, pos, k) == [bd EXCEPT ![pos + 1].gens = Append(@, k)]
AppendBranchesOut(bd, pos, k) == [bd EXCEPT ![pos + 1].branches_out = Append(@, k)]
\* the incoming branch appended to the outgoing list
AppendBranchesInAsOut(bd, pos, k) == [bd EXCEPT ![pos + 1].branches_out = Append(@, k)]
AppendBranchesIn(bd, pos, k) == [bd EXCEPT ![pos + 1].branches_in = Append(@, k)]

PSData(bd, bim, gd, gim, brd, brim, basemva, sb) ==
    [basemva |-> basemva, busdata |-> bd, busindexmap |-> bim,
     gendata |-> gd, genindexmap |-> gim,
     branchdata |-> brd, branchindexmap |-> brim,
     slackbus |-> sb,
     nbuses |-> Len(bd), ngens |-> Len(gd), nbranches |-> Len(brd)]

Init ==
    /\ rtsdata \in Inputs
    /\ pc = "area_load"
    /\ i = 0
    /\ err = None
    /\ ret = None
    /\ area_load = EmptyDict
    /\ busdata = <<>>
    /\ busindexmap = EmptyDict
    /\ gendata = <<>>
    /\ genindexmap = EmptyDict
    /\ branchdata = <<>>
    /\ branchindexmap = EmptyDict
    /\ slackbus = None
    /\ g = None /\ x1 = None /\ x2 = None /\ x3 = None
    /\ y1 = None /\ y2 = None /\ y3 = None /\ xs = None /\ ys = None
    /\ gencost = None
    /\ df = None /\ diag = <<>>

Raise(e) == pc' = "failed" /\ err' = Some(e)

\* for i,bus in enumerate(rtsdata.bus): first loop, one iteration
AreaLoadStep ==
    /\ pc = "area_load"
    /\ i < Len(rtsdata.bus)
    /\ area_load' = AreaLoadAdd(area_load, rtsdata.bus[i + 1])
    /\ i' = i + 1
    /\ UNCHANGED <<rtsdata, pc, err, ret, busdata, busindexmap, gendata,
                   genindexmap, branchdata, branchindexmap, slackbus>>
    /\ UNCHANGED <<costvars, tsvars>>

AreaLoadDone ==
    /\ pc = "area_load"
    /\ i = Len(rtsdata.bus)
    /\ pc' = "bus"
    /\ i' = 0
    /\ UNCHANGED <<rtsdata, err, ret, area_load, busdata, busindexmap, gendata,
                   genindexmap, branchdata, branchindexmap, slackbus>>
    /\ UNCHANGED <<costvars, tsvars>>

\* second loop over rtsdata.bus, one iteration
BusStep ==
    /\ pc = "bus"
    /\ i < Len(rtsdata.bus)
    /\ LET bus == rtsdata.bus[i + 1] IN
        /\ slackbus' = SlackUpdate(slackbus, bus, i)
        /\ IF area_load[bus.area] = 0
           THEN /\ Raise("ZeroDivisionError")
                /\ UNCHANGED <<i, busdata, busindexmap>>
           ELSE /\ busindexmap' = DictPut(busindexmap, bus.bus_id, i)
                /\ busdata' = Append(busdata, NewBus(bus, area_load))
                /\ i' = i + 1
                /\ UNCHANGED <<pc, err>>
    /\ UNCHANGED <<rtsdata, ret, area_load, gendata, genindexmap, branchdata,
                   branchindexmap>>
    /\ UNCHANGED <<costvars, tsvars>>

BusDone ==
    /\ pc = "bus"
    /\ i = Len(rtsdata.bus)
    /\ pc' = "gen"
    /\ i' = 0
    /\ UNCHANGED <<rtsdata, err, ret, area_load, busdata, busindexmap, gendata,
                   genindexmap, branchdata, branchindexmap, slackbus>>
    /\ UNCHANGED <<costvars, tsvars>>

\* loop over rtsdata.gen, one iteration
GenStep ==
    /\ pc = "gen"
    /\ i < Len(rtsdata.gen)
    /\ LET gen == rtsdata.gen[i + 1]
           buspos == Lookup(busindexmap, gen.bus_id)
       IN  IF buspos = None
           THEN /\ Raise("KeyError")
                /\ UNCHANGED <<i, busdata, gendata, genindexmap>>
           ELSE IF rtsdata.basemva = 0
           THEN /\ Raise("ZeroDivisionError")
                /\ UNCHANGED <<i, busdata, gendata, genindexmap>>
           ELSE /\ busdata' = AppendGens(busdata, buspos[1], i)
                /\ genindexmap' = DictPut(genindexmap, gen.gen_uid, i)
                /\ gendata' = Append(gendata, NewGen(gen, buspos[1], rtsdata.basemva))
                /\ i' = i + 1
                /\ UNCHANGED <<pc, err>>
    /\ UNCHANGED <<rtsdata, ret, area_load, busindexmap, branchdata,
                   branchindexmap, slackbus>>
    /\ UNCHANGED <<costvars, tsvars>>

GenDone ==
    /\ pc = "gen"
    /\ i = Len(rtsdata.gen)
    /\ pc' = "branch"
    /\ i' = 0
    /\ UNCHANGED <<rtsdata, err, ret, area_load, busdata, busindexmap, gendata,
                   genindexmap, branchdata, branchindexmap, slackbus>>
    /\ UNCHANGED <<costvars, tsvars>>

\* loop over rtsdata.branch, one iteration
BranchStep ==
    /\ pc = "branch"
    /\ i < Len(rtsdata.branch)
    /\ LET branch == rtsdata.branch[i + 1]
           frompos == Lookup(busindexmap, branch.from_bus)
           topos == Lookup(busindexmap, branch.to_bus)
       IN  IF frompos = None \/ topos = None
           THEN /\ Raise("KeyError")
                /\ UNCHANGED <<i, busdata, branchdata, branchindexmap>>
           ELSE IF rtsdata.basemva = 0
           THEN /\ Raise("ZeroDivisionError")
                /\ UNCHANGED <<i, busdata, branchdata, branchindexmap>>
           ELSE /\ busdata' = AppendBranchesIn(
                                  AppendBranchesOut(busdata, frompos[1], i), topos[1], i)
                /\ branchindexmap' = DictPut(branchindexmap, branch.uid, i)
                /\ branchdata' = Append(branchdata,
                                        NewBranch(branch, frompos[1], topos[1], rtsdata.basemva))
                /\ i' = i + 1
                /\ UNCHANGED <<pc, err>>
    /\ UNCHANGED <<rtsdata, ret, area_load, busindexmap, gendata, genindexmap,
                   slackbus>>
    /\ UNCHANGED <<costvars, tsvars>>

\* return PSData(...)
Return ==
    /\ pc = "branch"
    /\ i = Len(rtsdata.branch)
    /\ ret' = Some(PSData(busdata, busindexmap, gendata, genindexmap, branchdata,
                          branchindexmap, rtsdata.basemva, slackbus))
    /\ pc' = "done"
    /\ UNCHANGED <<rtsdata, i, err, area_load, busdata, busindexmap, gendata,
                   genindexmap, branchdata, branchindexmap, slackbus>>
    /\ UNCHANGED <<costvars, tsvars>>

Next ==
    \/ AreaLoadStep
    \/ AreaLoadDone
    \/ BusStep
    \/ BusDone
    \/ GenStep
    \/ GenDone
    \/ BranchStep
    \/ Return

Spec == Init /\ [][Next]_vars

----------------------------------------------------------------------------
(* Properties of create_ps_data_from_rts_data *)

Positions(seq) == 0 .. (Len(seq) - 1)
At(seq, p) == seq[p + 1]

Returned == pc = "done" /\ ret # None
PS == ret[1]

InputAreas == {rtsdata.bus[k].area : k \in DOMAIN rtsdata.bus}
InputBusIds == {rtsdata.bus[k].bus_id : k \in DOMAIN rtsdata.bus}
RefPositions == {p \in Positions(rtsdata.bus) : At(rtsdata.bus, p).bus_type = "Ref"}

\* sum of mw_load over the first k input buses of area a
RECURSIVE LoadOfArea(_, _)
LoadOfArea(a, k) ==
    IF k = 0 THEN 0
    ELSE LoadOfArea(a, k - 1) + (IF rtsdata.bus[k].area = a THEN rtsdata.bus[k].mw_load ELSE 0)

\* sum of area_load_share over the first k buses of bd that lie in area a
RECURSIVE ShareOfArea(_, _, _)
ShareOfArea(bd, a, k) ==
    IF k = 0 THEN RInt(0)
    ELSE IF bd[k].area = a
         THEN RAdd(ShareOfArea(bd, a, k - 1), bd[k].area_load_share)
         ELSE ShareOfArea(bd, a, k - 1)

StrictlyIncreasing(seq) == \A m, n \in DOMAIN seq : m < n => seq[m] < seq[n]
Elements(seq) == {seq[k] : k \in DOMAIN seq}

\* C1: in the returned PSData the area_load_share values of the buses of
\* each input area sum to 1, each share being mw_load over the area's total.
C1_AreaLoadSharesSumToOne ==
    Returned =>
        \A a \in InputAreas :
            /\ ShareOfArea(PS.busdata, a, Len(PS.busdata)) = RInt(1)
            /\ \A p \in Positions(PS.busdata) :
                   At(PS.busdata, p).area = a =>
                       At(PS.busdata, p).area_load_share =
                           Rat(At(rtsdata.bus, p).mw_load, LoadOfArea(a, Len(rtsdata.bus)))

\* a returned PSData in which one area holds two buses with different loads
C1_Witness ==
    /\ Returned
    /\ \E p, q \in Positions(PS.busdata) :
           /\ p # q
           /\ At(PS.busdata, p).area = At(PS.busdata, q).area
           /\ At(PS.busdata, p).area_load_share = Rat(1, 3)
           /\ At(PS.busdata, q).area_load_share = Rat(2, 3)

\* C2: every generator's bus and every branch's from_bus and to_bus in the
\* returned PSData is a position p with 0 <= p < nbuses.
C2_BusPositionsValid ==
    Returned =>
        /\ \A gp \in Positions(PS.gendata) :
               At(PS.gendata, gp).bus \in 0 .. (PS.nbuses - 1)
        /\ \A k \in Positions(PS.branchdata) :
               /\ At(PS.branchdata, k).from_bus \in 0 .. (PS.nbuses - 1)
               /\ At(PS.branchdata, k).to_bus \in 0 .. (PS.nbuses - 1)

C2_Witness ==
    /\ Returned
    /\ PS.ngens > 0
    /\ PS.nbranches > 0
    /\ \E k \in Positions(PS.branchdata) :
           At(PS.branchdata, k).from_bus # At(PS.branchdata, k).to_bus

\* C3: with exactly one input bus of type "Ref", exactly one bus of the
\* returned PSData has is_slack, it sits at the Ref bus's input position,
\* and slackbus is that position.
C3_SingleRefIsSlack ==
    (Returned /\ Cardinality(RefPositions) = 1) =>
        \A r \in RefPositions :
            /\ {p \in Positions(PS.busdata) : At(PS.busdata, p).is_slack} = {r}
            /\ PS.slackbus = Some(r)

\* the single Ref bus is the second of two buses
C3_Witness ==
    /\ Returned
    /\ RefPositions = {1}
    /\ PS.nbuses = 2

\* C4: an input with no "Ref" bus, or with several, is flagged and never
\* returns a normal PSData.
C4_RefCountFlagged ==
    Cardinality(RefPositions) # 1 => ~Returned

DanglingRef ==
    \/ \E k \in DOMAIN rtsdata.gen : rtsdata.gen[k].bus_id \notin InputBusIds
    \/ \E k \in DOMAIN rtsdata.branch :
          \/ rtsdata.branch[k].from_bus \notin InputBusIds
          \/ rtsdata.branch[k].to_bus \notin InputBusIds

ZeroAreaLoad == \E a \in InputAreas : LoadOfArea(a, Len(rtsdata.bus)) = 0

\* C5 as stated: a generator or branch that names no input bus makes the
\* call end in a lookup failure, whatever its place in the tables, and no
\* PSData is returned.
C5_DanglingEndsInLookupFailure ==
    DanglingRef =>
        /\ ~Returned
        /\ ret = None
        /\ pc = "failed" => err = Some("KeyError")

\* C5 as amended: with a dangling reference the call never returns a PSData;
\* it runs on until it fails, and the failure is the lookup failure unless a
\* division by zero (an area of total load 0, or basemva = 0) came first.
C5_DanglingNeverReturns ==
    DanglingRef =>
        /\ pc # "done"
        /\ ret = None
        /\ pc # "failed" => ENABLED Next
        /\ pc = "failed" => err \in {Some("KeyError"), Some("ZeroDivisionError")}
        /\ (pc = "failed" /\ ~ZeroAreaLoad /\ rtsdata.basemva # 0) => err = Some("KeyError")

\* the lookup fails at the second row, after one generator was normalised
C5_Witness ==
    /\ pc = "failed"
    /\ err = Some("KeyError")
    /\ Len(gendata) = 1
    /\ Len(rtsdata.gen) = 2
    /\ rtsdata.gen[2].bus_id \notin InputBusIds

\* C9: the gens, branches_out and branches_in lists of every bus of the
\* returned PSData hold, in increasing order and once each, exactly the
\* generator and branch positions whose bus, from_bus and to_bus is that
\* bus; so every generator and branch position is in exactly one list of
\* each kind.
C9_LinkListsMirrorTables ==
    Returned =>
        /\ \A b \in Positions(PS.busdata) :
               LET bus == At(PS.busdata, b) IN
               /\ StrictlyIncreasing(bus.gens)
               /\ StrictlyIncreasing(bus.branches_out)
               /\ StrictlyIncreasing(bus.branches_in)
               /\ Elements(bus.gens) =
                      {gp \in Positions(PS.gendata) : At(PS.gendata, gp).bus = b}
               /\ Elements(bus.branches_out) =
                      {k \in Positions(PS.branchdata) : At(PS.branchdata, k).from_bus = b}
               /\ Elements(bus.branches_in) =
                      {k \in Positions(PS.branchdata) : At(PS.branchdata, k).to_bus = b}
        /\ \A gp \in Positions(PS.gendata) :
               Cardinality({b \in Positions(PS.busdata) :
                               gp \in Elements(At(PS.busdata, b).gens)}) = 1
        /\ \A k \in Positions(PS.branchdata) :
               /\ Cardinality({b \in Positions(PS.busdata) :
                                  k \in Elements(At(PS.busdata, b).branches_out)}) = 1
               /\ Cardinality({b \in Positions(PS.busdata) :
                                  k \in Elements(At(PS.busdata, b).branches_in)}) = 1

\* one bus receives two branches, another bus sends one of them
C9_Witness ==
    /\ Returned
    /\ PS.ngens > 0
    /\ \E b, c \in Positions(PS.busdata) :
           /\ b # c
           /\ Len(At(PS.busdata, b).branches_in) = 2
           /\ Len(At(PS.busdata, c).branches_out) > 0

IdsDistinct(rows) == \A m, n \in DOMAIN rows : m # n => rows[m].id # rows[n].id

\* map is the inverse of the positions of rows
IsInverse(map, rows) ==
    /\ \A p \in Positions(rows) : At(rows, p).id \in DOMAIN map /\ map[At(rows, p).id] = p
    /\ Cardinality(DOMAIN map) = Len(rows)

\* map sends every id of rows to the last position that carries it
IsLastPosition(map, rows) ==
    /\ DOMAIN map = {At(rows, p).id : p \in Positions(rows)}
    /\ \A p \in Positions(rows) :
           /\ At(rows, map[At(rows, p).id]).id = At(rows, p).id
           /\ map[At(rows, p).id] >= p

LinkedToReferencedBus ==
    /\ \A gp \in Positions(PS.gendata) :
           At(PS.busdata, At(PS.gendata, gp).bus).id = At(rtsdata.gen, gp).bus_id
    /\ \A k \in Positions(PS.branchdata) :
           /\ At(PS.busdata, At(PS.branchdata, k).from_bus).id = At(rtsdata.branch, k).from_bus
           /\ At(PS.busdata, At(PS.branchdata, k).to_bus).id = At(rtsdata.branch, k).to_bus

\* C10 as stated: for every input, repeated external ids included, each
\* index map is the inverse of the positions of its collection and has as
\* many keys as the collection has entries.
C10_MapsInverseForEveryInput ==
    Returned =>
        /\ IsInverse(PS.busindexmap, PS.busdata)
        /\ IsInverse(PS.genindexmap, PS.gendata)
        /\ IsInverse(PS.branchindexmap, PS.branchdata)
        /\ LinkedToReferencedBus

\* C10 as amended: each index map is the inverse of the positions when the
\* external ids of its table are pairwise distinct; in general it sends an
\* id to the last position carrying it, and every generator and branch is
\* linked to a bus that carries the referenced bus_id.
C10_MapsInverseForDistinctIds ==
    Returned =>
        /\ IdsDistinct(PS.busdata) => IsInverse(PS.busindexmap, PS.busdata)
        /\ IdsDistinct(PS.gendata) => IsInverse(PS.genindexmap, PS.gendata)
        /\ IdsDistinct(PS.branchdata) => IsInverse(PS.branchindexmap, PS.branchdata)
        /\ IsLastPosition(PS.busindexmap, PS.busdata)
        /\ IsLastPosition(PS.genindexmap, PS.gendata)
        /\ IsLastPosition(PS.branchindexmap, PS.branchdata)
        /\ LinkedToReferencedBus

\* two buses share a bus_id and a generator refers to it
C10_Witness ==
    /\ Returned
    /\ ~IdsDistinct(PS.busdata)
    /\ PS.ngens > 0
    /\ At(PS.gendata, 0).bus = 1

----------------------------------------------------------------------------
(* create_pwlcost_from_rts_data *)

\* most generators in the table handed to the cost curve builder
MaxCostGens == 1

Tenths(S) == {Rat(n, 10) : n \in S}

\* generator rows: breakpoints that rise, stay or fall from one to the next,
\* heat rates of either sign, fuel prices of either sign
CostGenRows ==
    [output_pct_0 : Tenths({0, 3}), output_pct_1 : Tenths({0, 3, 4}),
     output_pct_2 : Tenths({0, 3, 6}), output_pct_3 : Tenths({6, 10}),
     hr_avg_0 : {RInt(10)},
     hr_incr_1 : {RInt(-9), RInt(0), RInt(9)},
     hr_incr_2 : {RInt(-10), RInt(9), RInt(10)},
     hr_incr_3 : {RInt(9), RInt(11)},
     fuel_price_dollar_per_mmbtu : {RInt(-2), RInt(0), RInt(2)},
     pmax_mw : {RInt(0), RInt(100)}]

CostRow(p0, p1, p2, p3, h1, h2, h3) ==
    [output_pct_0 |-> Rat(p0, 10), output_pct_1 |-> Rat(p1, 10),
     output_pct_2 |-> Rat(p2, 10), output_pct_3 |-> Rat(p3, 10),
     hr_avg_0 |-> RInt(10),
     hr_incr_1 |-> RInt(h1), hr_incr_2 |-> RInt(h2), hr_incr_3 |-> RInt(h3),
     fuel_price_dollar_per_mmbtu |-> RInt(2), pmax_mw |-> RInt(100)]

\* a thermal unit and a unit whose breakpoints are all zero
FixedCostRows == {CostRow(0, 3, 6, 10, 9, 10, 11), CostRow(0, 0, 0, 0, 0, 0, 0)}

\* The generator tables: of length <= MaxCostGens, one row ranging over
\* CostGenRows and the rows around it over FixedCostRows.
CostTables ==
    {<<>>} \cup
    UNION {{[m \in 1 .. k |-> IF m = j THEN r ELSE f[m]] :
               r \in CostGenRows, f \in [1 .. k -> FixedCostRows]} :
           k \in 1 .. MaxCostGens, j \in 1 .. MaxCostGens}

CostInputs == [gen : {t \in CostTables : Len(t) <= MaxCostGens}]

\* segments = 1
Segments == 1

\* np.linspace(start, stop, num)
Linspace(start, stop, num) ==
    [k \in 1 .. num |->
        RAdd(start, RMul(RInt(k - 1), RDiv(RSub(stop, start), RInt(num - 1))))]

RECURSIVE RMinUpTo(_, _)
RMinUpTo(x, k) ==
    IF k = 1 THEN x[1]
    ELSE LET m == RMinUpTo(x, k - 1) IN IF RLe(x[k], m) THEN x[k] ELSE m

RECURSIVE RMaxUpTo(_, _)
RMaxUpTo(x, k) ==
    IF k = 1 THEN x[1]
    ELSE LET m == RMaxUpTo(x, k - 1) IN IF RLe(m, x[k]) THEN x[k] ELSE m

\* x.min() and y.max() of a numpy array
ArrayMin(x) == RMinUpTo(x, Len(x))
ArrayMax(y) == RMaxUpTo(y, Len(y))

\* (x - x.min()) * rate + start
HeatCurve(x, rate, start) ==
    [k \in DOMAIN x |-> RAdd(RMul(RSub(x[k], ArrayMin(x)), rate), start)]

\* concatenate([a1[:1], a1[-1:], a2[-1:], a3[-1:]])
Breakpoints(a1, a2, a3) == <<a1[1], a1[Len(a1)], a2[Len(a2)], a3[Len(a3)]>>

ScaleXs(xv, gen) == [k \in DOMAIN xv |-> RMul(xv[k], gen.pmax_mw)]

ScaleYs(yv, gen) ==
    [k \in DOMAIN yv |->
        RDiv(RMul(RMul(yv[k], gen.pmax_mw), gen.fuel_price_dollar_per_mmbtu), RInt(1000))]

\* the slope with the operands of dx in the wrong order
SegmentSlopeSwapped(xv, yv, s) ==
    LET dx == RSub(xv[s], xv[s + 1])
    IN  IF RIsZero(dx) THEN RInt(0) ELSE RDiv(RSub(yv[s + 1], yv[s]), dx)

\* slope of segment s in 1..3 (xs[s] of the code is xv[s + 1])
SegmentSlope(xv, yv, s) ==
    LET dx == RSub(xv[s + 1], xv[s])
    IN  IF RIsZero(dx) THEN RInt(0) ELSE RDiv(RSub(yv[s + 1], yv[s]), dx)

SegmentIntercept(xv, yv, s) ==
    LET dx == RSub(xv[s + 1], xv[s])
    IN  IF RIsZero(dx) THEN RInt(0)
        ELSE RSub(yv[s], RMul(SegmentSlope(xv, yv, s), xv[s]))

PWLCost(xv, yv) ==
    [slopes |-> [s \in 1 .. 3 |-> SegmentSlope(xv, yv, s)],
     intercepts |-> [s \in 1 .. 3 |-> SegmentIntercept(xv, yv, s)],
     nums |-> 3]

InitCost ==
    /\ rtsdata \in CostInputs
    /\ pc = "cost"
    /\ i = 0
    /\ err = None
    /\ ret = None
    /\ area_load = None /\ busdata = None /\ busindexmap = None
    /\ gendata = None /\ genindexmap = None
    /\ branchdata = None /\ branchindexmap = None /\ slackbus = None
    /\ g = None /\ x1 = None /\ x2 = None /\ x3 = None
    /\ y1 = None /\ y2 = None /\ y3 = None /\ xs = None /\ ys = None
    /\ gencost = <<>>
    /\ df = None /\ diag = <<>>

\* for g in rtsdata.gen: one iteration
CostStep ==
    /\ pc = "cost"
    /\ i < Len(rtsdata.gen)
    /\ g' = rtsdata.gen[i + 1]
    /\ x1' = Linspace(g'.output_pct_0, g'.output_pct_1, Segments + 1)
    /\ x2' = Linspace(g'.output_pct_1, g'.output_pct_2, Segments + 1)
    /\ x3' = Linspace(g'.output_pct_2, g'.output_pct_3, Segments + 1)
    /\ y1' = HeatCurve(x1', g'.hr_incr_1, RMul(g'.hr_avg_0, ArrayMin(x1')))
    /\ y2' = HeatCurve(x2', g'.hr_incr_2, ArrayMax(y1'))
    /\ y3' = HeatCurve(x3', g'.hr_incr_3, ArrayMax(y2'))
    /\ xs' = ScaleXs(Breakpoints(x1', x2', x3'), g')
    /\ ys' = ScaleYs(Breakpoints(y1', y2', y3'), g')
    /\ gencost' = Append(gencost, PWLCost(xs', ys'))
    /\ i' = i + 1
    /\ UNCHANGED <<rtsdata, pc, err, ret, psvars, tsvars>>

\* return gencost
CostReturn ==
    /\ pc = "cost"
    /\ i = Len(rtsdata.gen)
    /\ ret' = Some(gencost)
    /\ pc' = "cost_done"
    /\ UNCHANGED <<rtsdata, i, err, psvars, costvars, tsvars>>

NextCost ==
    \/ CostStep
    \/ CostReturn

SpecCost == InitCost /\ [][NextCost]_vars

----------------------------------------------------------------------------
(* Properties of create_pwlcost_from_rts_data *)

RLt(a, b) == RLe(a, b) /\ a # b

NonZeroWidth(r) ==
    /\ r.output_pct_0 # r.output_pct_1
    /\ r.output_pct_1 # r.output_pct_2
    /\ r.output_pct_2 # r.output_pct_3

HeatRatesOrdered(r) == RLe(r.hr_incr_1, r.hr_incr_2) /\ RLe(r.hr_incr_2, r.hr_incr_3)

BreakpointsIncreasing(r) ==
    /\ RLt(r.output_pct_0, r.output_pct_1)
    /\ RLt(r.output_pct_1, r.output_pct_2)
    /\ RLt(r.output_pct_2, r.output_pct_3)

SlopesNonDecreasing(c) == RLe(c.slopes[1], c.slopes[2]) /\ RLe(c.slopes[2], c.slopes[3])

\* C7 as stated: a generator whose three intervals have non-zero width and
\* whose heat rates are ordered gets non-decreasing slopes.
C7_SlopesNonDecreasing ==
    \A k \in DOMAIN gencost :
        (NonZeroWidth(rtsdata.gen[k]) /\ HeatRatesOrdered(rtsdata.gen[k]))
            => SlopesNonDecreasing(gencost[k])

\* C7 as amended: the slopes are non-decreasing for a generator whose
\* breakpoints strictly increase, whose heat rates are ordered and not
\* negative, and whose fuel price is not negative.
C7_SlopesNonDecreasingTypical ==
    \A k \in DOMAIN gencost :
        LET r == rtsdata.gen[k] IN
        (/\ BreakpointsIncreasing(r)
         /\ HeatRatesOrdered(r)
         /\ RLe(RInt(0), r.hr_incr_1)
         /\ RLe(RInt(0), r.fuel_price_dollar_per_mmbtu))
            => SlopesNonDecreasing(gencost[k])

\* a cost curve with three strictly increasing slopes was built
C7_Witness ==
    \E k \in DOMAIN gencost :
        /\ BreakpointsIncreasing(rtsdata.gen[k])
        /\ HeatRatesOrdered(rtsdata.gen[k])
        /\ RLe(RInt(0), rtsdata.gen[k].hr_incr_1)
        /\ RLt(RInt(0), gencost[k].slopes[1])
        /\ RLt(gencost[k].slopes[1], gencost[k].slopes[2])
        /\ RLt(gencost[k].slopes[2], gencost[k].slopes[3])

\* C8: for every generator record the curve of interval 2 starts at the
\* value the curve of interval 1 ended at, the curve of interval 3 starts
\* where that of interval 2 ended, and each rises at its own rate.
C8_CurveContinuous ==
    g # None =>
        /\ y2[1] = y1[Len(y1)]
        /\ y3[1] = y2[Len(y2)]
        /\ RSub(y1[Len(y1)], y1[1]) = RMul(g.hr_incr_1, RSub(g.output_pct_1, g.output_pct_0))
        /\ RSub(y2[Len(y2)], y2[1]) = RMul(g.hr_incr_2, RSub(g.output_pct_2, g.output_pct_1))
        /\ RSub(y3[Len(y3)], y3[1]) = RMul(g.hr_incr_3, RSub(g.output_pct_3, g.output_pct_2))

----------------------------------------------------------------------------
(* RTSDataSet.read_rts_timeseries *)

\* most rows of the time-series table
MaxTsRows == 2

\* rows of the csv file; Period counts from 1
TsRows == [Year : {2020}, Month : {1}, Day : {1, 31}, Period : {1, 2, 12, 24, 25, 288}]

TsColumns == {"Year", "Month", "Day", "Period"}

TsInputs == [columns : {TsColumns}, rows : SeqsUpTo(TsRows, MaxTsRows)]

HourlyPeriods == 24
FiveMinPeriods == 288

RECURSIVE MaxPeriodUpTo(_, _)
MaxPeriodUpTo(rows, k) ==
    IF k = 1 THEN rows[1].Period
    ELSE LET m == MaxPeriodUpTo(rows, k - 1) IN IF rows[k].Period > m THEN rows[k].Period ELSE m

\* df['Period'].max(): None stands for the NaN of an empty column
PeriodMax(rows) == IF Len(rows) = 0 THEN None ELSE Some(MaxPeriodUpTo(rows, Len(rows)))

\* pd.to_timedelta(n, unit), in minutes
ToTimedelta(n, unit) == IF unit = "h" THEN 60 * n ELSE n

\* pd.to_datetime(row[['Year', 'Month', 'Day']]) + a timedelta of less
\* than a day: the date at midnight moved on by that many minutes
DatePlus(row, minutes) ==
    [year |-> row.Year, month |-> row.Month, day |-> row.Day + (minutes \div 1440),
     hour |-> (minutes \div 60) % 24, minute |-> minutes % 60]

\* a cadence test that accepts a day cut short
CadenceUpTo(mx) ==
    IF mx # None /\ mx[1] <= HourlyPeriods THEN "h"
    ELSE IF mx = Some(FiveMinPeriods) THEN "min"
    ELSE "neither"

\* the branch taken on the maximum Period
Cadence(mx) ==
    IF mx = Some(HourlyPeriods) THEN "h"
    ELSE IF mx = Some(FiveMinPeriods) THEN "min"
    ELSE "neither"

WithTimestamp(row, ts) ==
    [Year |-> row.Year, Month |-> row.Month, Day |-> row.Day, Period |-> row.Period,
     Timestamp |-> ts]

AddTimestamps(table, cadence) ==
    IF cadence = "h"
    THEN [columns |-> table.columns \cup {"Timestamp"},
          rows |-> [k \in DOMAIN table.rows |->
                       WithTimestamp(table.rows[k],
                           DatePlus(table.rows[k], ToTimedelta(table.rows[k].Period - 1, "h")))]]
    ELSE IF cadence = "min"
    THEN [columns |-> table.columns \cup {"Timestamp"},
          rows |-> [k \in DOMAIN table.rows |->
                       WithTimestamp(table.rows[k],
                           DatePlus(table.rows[k],
                                    ToTimedelta(5 * (table.rows[k].Period - 1), "min")))]]
    ELSE table

InitTS ==
    /\ rtsdata \in TsInputs
    /\ pc = "ts"
    /\ i = 0
    /\ err = None
    /\ ret = None
    /\ area_load = None /\ busdata = None /\ busindexmap = None
    /\ gendata = None /\ genindexmap = None
    /\ branchdata = None /\ branchindexmap = None /\ slackbus = None
    /\ g = None /\ x1 = None /\ x2 = None /\ x3 = None
    /\ y1 = None /\ y2 = None /\ y3 = None /\ xs = None /\ ys = None
    /\ gencost = None
    /\ df = None /\ diag = <<>>

\* df = pd.read_csv(csv_file)
ReadCsv ==
    /\ pc = "ts"
    /\ df' = rtsdata
    /\ pc' = "ts_cadence"
    /\ UNCHANGED <<rtsdata, i, err, ret, diag, psvars, costvars>>

\* the if / elif / else on df['Period'].max() and the return
ReadRtsTimeseries ==
    /\ pc = "ts_cadence"
    /\ LET cadence == Cadence(PeriodMax(df.rows)) IN
        /\ df' = AddTimestamps(df, cadence)
        /\ diag' = IF cadence = "neither"
                   THEN Append(diag, ">>> Neither 5 min nor hourly data")
                   ELSE diag
    /\ ret' = Some(df')
    /\ pc' = "ts_done"
    /\ UNCHANGED <<rtsdata, i, err, psvars, costvars>>

NextTS ==
    \/ ReadCsv
    \/ ReadRtsTimeseries

SpecTS == InitTS /\ [][NextTS]_vars

----------------------------------------------------------------------------
(* Properties of read_rts_timeseries *)

InputMax == PeriodMax(rtsdata.rows)

OtherColumnsUnchanged ==
    /\ TsColumns \subseteq ret[1].columns
    /\ Len(ret[1].rows) = Len(rtsdata.rows)
    /\ \A k \in DOMAIN rtsdata.rows :
           \A c \in TsColumns : ret[1].rows[k][c] = rtsdata.rows[k][c]

\* C6: the cadence comes from the maximum Period of the whole table.  With
\* maximum 24 every row gets the date plus Period-1 hours, with maximum 288
\* the date plus 5*(Period-1) minutes; with any other maximum, one below 24
\* included, there is no Timestamp column, one diagnostic line is printed
\* and the table is returned as it was read.
C6_CadenceFromMaxPeriod ==
    pc = "ts_done" =>
        /\ OtherColumnsUnchanged
        /\ InputMax = Some(24) =>
               /\ "Timestamp" \in ret[1].columns
               /\ diag = <<>>
               /\ \A k \in DOMAIN rtsdata.rows :
                      ret[1].rows[k].Timestamp =
                          [year |-> rtsdata.rows[k].Year, month |-> rtsdata.rows[k].Month,
                           day |-> rtsdata.rows[k].Day,
                           hour |-> rtsdata.rows[k].Period - 1, minute |-> 0]
        /\ InputMax = Some(288) =>
               /\ "Timestamp" \in ret[1].columns
               /\ diag = <<>>
               /\ \A k \in DOMAIN rtsdata.rows :
                      LET t == ret[1].rows[k].Timestamp IN
                      /\ t.year = rtsdata.rows[k].Year
                      /\ t.month = rtsdata.rows[k].Month
                      /\ t.day = rtsdata.rows[k].Day
                      /\ 60 * t.hour + t.minute = 5 * (rtsdata.rows[k].Period - 1)
                      /\ t.minute \in 0 .. 59
        /\ InputMax \notin {Some(24), Some(288)} =>
               /\ ret[1] = rtsdata
               /\ "Timestamp" \notin ret[1].columns
               /\ diag = <<">>> Neither 5 min nor hourly data">>

\* an hourly table cut short at Period 12 comes back without timestamps
C6_Witness ==
    /\ pc = "ts_done"
    /\ InputMax = Some(12)
    /\ Len(rtsdata.rows) = 2
    /\ "Timestamp" \notin ret[1].columns
    /\ Len(diag) = 1

====
